---------------------------- MODULE Spec2Model ----------------------------
(***************************************************************************)
(* flask-mosession: server side sessions kept in a MongoDB collection with *)
(* a pluggable cache in front of it.                                       *)
(*                                                                         *)
(* The model follows src/flask_mosession/__init__.py (MoSession,           *)
(* MoSessionInterface, SessionStorage, MoSessionExtension) and             *)
(* src/flask_mosession/cache_backends.py.  The older single-file module    *)
(* src/flask_mosession.py differs in SessionStorage.connect, which is      *)
(* modelled beside the package's (connect_module).                         *)
(*                                                                         *)
(* A python dict is a function whose domain is its set of keys; None and   *)
(* the empty dict are both EmptyDict (the code only tests truthiness).     *)
(* The handlers thread a world record through their calls: the store, the  *)
(* cache, the storage handle, the calls made so far (io), the exception    *)
(* raised (exc, "" for none) and the value returned (ret).  Try(w, K)      *)
(* runs the rest K of a handler unless w carries an exception.             *)
(*                                                                         *)
(* In Spec the application sets and deletes its own keys only; the         *)
(* reserved keys ('_id', '_permanent', 'expire') are written by the code.  *)
(***************************************************************************)
EXTENDS Naturals, Sequences, FiniteSets, TLC

VARIABLES
    config,       \* app.config: the cache backend and the expire-at-close option
    store,        \* the MongoDB sessions collection: _id -> document
    cache,        \* the external cache wrapped by CacheinBackend: sid -> document
    storage,      \* SessionStorage: connection, database, collections
    _collection,  \* MoSessionExtension._collection is set
    session,      \* the MoSession of each request: data, new, modified
    pc,           \* each request: "idle" (no session open) or "open"
    hist,         \* per request: how its session was built, and whether touched since
    uuids,        \* how many uuid4() values were drawn
    oids,         \* how many ObjectId values the collection generated
    persisted,    \* sid -> the data of its last save that returned, until removed
    lastOp        \* what the last step did: its calls, its cookies, its exception

vars == <<config, store, cache, storage, _collection, session, pc, hist,
          uuids, oids, persisted, lastOp>>

-----------------------------------------------------------------------------
(* Bounds *)

MaxSid == 2
MaxOid == 1

(* The requests in flight: a worker serves one request at a time, from     *)
(* open_session to save_session, and then the next one.                    *)
Reqs == {1}

(* Program constants *)

ConnectionAttempts == 5
PermanentSessionLifetime == 1
EmptyStr == 0

(* The instants datetime.utcnow() may return. *)
Times == {1}

(* What the application keeps in its sessions. *)
AppKeys == {"uid"}
AppValues == {42}
DelKeys == AppKeys

-----------------------------------------------------------------------------
(* Values *)

EmptyDict == [k \in {} |-> 0]

Binary(s) == [kind |-> "Binary", val |-> s]
ObjectId(n) == [kind |-> "ObjectId", val |-> n]
Str(b) == b.val

setitem(d, k, v) == [x \in DOMAIN d \cup {k} |-> IF x = k THEN v ELSE d[x]]
delitem(d, k) == [x \in DOMAIN d \ {k} |-> d[x]]
get(d, k, default) == IF k \in DOMAIN d THEN d[k] ELSE default

NoSession == [data |-> EmptyDict, new |-> FALSE, modified |-> FALSE]
NoHist == [origin |-> "none", touched |-> FALSE]

NoIO == [finds |-> 0, saves |-> 0, removes |-> 0,
         cacheGets |-> 0, cacheSets |-> 0, cacheRemoves |-> 0,
         attempts |-> 0, cookies |-> <<>>]

Outcomes == {"ok", "AutoReconnect", "Error"}
ConnOutcomes == [1..ConnectionAttempts -> Outcomes]
AllOk == [i \in 1..ConnectionAttempts |-> "ok"]

(* The outcomes a handler's connect can tell apart: k transient failures,  *)
(* then a success or another error (k = ConnectionAttempts: nothing else). *)
HandlerConnOutcomes ==
    {[i \in 1..ConnectionAttempts |-> IF i <= k THEN "AutoReconnect" ELSE last] :
        k \in 0..ConnectionAttempts, last \in {"ok", "Error"}}

(* The faults the environment injects into one handler: the outcome of each *)
(* Connection() attempt, whether the collection call raises, and which      *)
(* cache call of the handler raises (0: none).                              *)
Faults == [conn : IF _collection THEN {AllOk} ELSE HandlerConnOutcomes,
           store : BOOLEAN,
           cache : IF config.MOSESSION_CACHE_BACKEND = "CacheinBackend"
                   THEN 0..2 ELSE {0}]

World == [store |-> store, cache |-> cache, storage |-> storage,
          coll |-> _collection, oids |-> oids, io |-> NoIO, exc |-> "",
          ret |-> EmptyDict]

Raise(w, e) == [w EXCEPT !.exc = e]
Return(w, v) == [w EXCEPT !.ret = v]
Try(w, K(_)) == IF w.exc # "" THEN w ELSE K(w)
Let(v, K(_)) == K(v)

-----------------------------------------------------------------------------
(* MoSession *)

(* Mutant: the id is written without the CallbackDict's on_update call. *)
generate_sid_silent(s, u) ==
    [s EXCEPT !.data = setitem(@, "_id", Binary(u))]

generate_sid(s, u) ==
    [s EXCEPT !.data = setitem(@, "_id", Binary(u)), !.modified = TRUE]

(* Mutant: the rehydrated session keeps SessionMixin's default modified = True. *)
MoSession_modified_default(initial, u) ==
    IF initial # EmptyDict
    THEN [data |-> initial, new |-> FALSE, modified |-> TRUE]
    ELSE [generate_sid([data |-> EmptyDict, new |-> FALSE, modified |-> TRUE], u)
              EXCEPT !.new = TRUE, !.modified = TRUE]

MoSession(initial, u) ==
    IF initial # EmptyDict
    THEN [data |-> initial, new |-> FALSE, modified |-> FALSE]
    ELSE [generate_sid([data |-> EmptyDict, new |-> FALSE, modified |-> TRUE], u)
              EXCEPT !.new = TRUE, !.modified = TRUE]

sid(s) == Str(s.data["_id"])

(* CallbackDict: every mutation calls _on_update, which sets modified. *)
session_setitem(s, k, v) == [s EXCEPT !.data = setitem(@, k, v), !.modified = TRUE]
session_delitem(s, k) == [s EXCEPT !.data = delitem(@, k), !.modified = TRUE]
session_clear(s) == [s EXCEPT !.data = EmptyDict, !.modified = TRUE]

(* SessionMixin.permanent is a property kept in the key '_permanent'. *)
get_permanent(s) == get(s.data, "_permanent", FALSE)
set_permanent(s, value) == session_setitem(s, "_permanent", value)

-----------------------------------------------------------------------------
(* SessionStorage *)

RECURSIVE attempt(_, _, _)
attempt(st, outcomes, i) ==
    IF i > ConnectionAttempts
    THEN [st |-> st, attempts |-> i - 1, exc |-> "ConnectionFailure"]
    ELSE CASE outcomes[i] = "ok" ->
                [st |-> [st EXCEPT !.connection = TRUE, !.database = TRUE],
                 attempts |-> i, exc |-> ""]
           [] outcomes[i] = "AutoReconnect" -> attempt(st, outcomes, i + 1)
           [] OTHER -> [st |-> st, attempts |-> i, exc |-> "Error"]

connect(st, outcomes) ==
    IF st.connection
    THEN [st |-> st, attempts |-> 0, exc |-> ""]
    ELSE attempt(st, outcomes, 1)

(* src/flask_mosession.py: no early return, Connection() only while        *)
(* self.connection is None, and no exception when the attempts run out.    *)
RECURSIVE attempt_module(_, _, _)
attempt_module(st, outcomes, i) ==
    IF i > ConnectionAttempts
    THEN [st |-> st, attempts |-> i - 1, exc |-> ""]
    ELSE IF st.connection
    THEN [st |-> [st EXCEPT !.database = TRUE], attempts |-> i - 1, exc |-> ""]
    ELSE CASE outcomes[i] = "ok" ->
                [st |-> [st EXCEPT !.connection = TRUE, !.database = TRUE],
                 attempts |-> i, exc |-> ""]
           [] outcomes[i] = "AutoReconnect" -> attempt_module(st, outcomes, i + 1)
           [] OTHER -> [st |-> st, attempts |-> i, exc |-> "Error"]

connect_module(st, outcomes) == attempt_module(st, outcomes, 1)

storage_getitem(st, outcomes) ==
    IF st.collections
    THEN [st |-> st, attempts |-> 0, exc |-> ""]
    ELSE Let(IF ~st.database THEN connect(st, outcomes)
             ELSE [st |-> st, attempts |-> 0, exc |-> ""],
             LAMBDA c :
                IF c.exc # "" THEN c
                ELSE IF ~c.st.database THEN [c EXCEPT !.exc = "TypeError"]
                ELSE [c EXCEPT !.st.collections = TRUE])

(* MoSessionExtension.collection *)
collection(w, f) ==
    IF w.coll THEN w
    ELSE Let(storage_getitem(w.storage, f.conn),
             LAMBDA g : [w EXCEPT !.storage = g.st,
                                  !.io.attempts = @ + g.attempts,
                                  !.coll = (g.exc = ""),
                                  !.exc = g.exc])

(* pymongo Collection.find_one, save and remove on self.collection *)
find_one(w, f, id) ==
    Try(collection(w, f),
        LAMBDA c :
           IF f.store
           THEN [c EXCEPT !.io.finds = @ + 1, !.exc = "AutoReconnect"]
           ELSE [c EXCEPT !.io.finds = @ + 1, !.ret = get(c.store, id, EmptyDict)])

collection_save(w, f, doc) ==
    Try(collection(w, f),
        LAMBDA c :
           IF f.store
           THEN [c EXCEPT !.io.saves = @ + 1, !.exc = "AutoReconnect"]
           ELSE IF "_id" \in DOMAIN doc
           THEN [c EXCEPT !.io.saves = @ + 1,
                          !.store = setitem(@, doc["_id"], doc)]
           ELSE [c EXCEPT !.io.saves = @ + 1,
                          !.oids = @ + 1,
                          !.store = setitem(@, ObjectId(c.oids + 1),
                                            setitem(doc, "_id", ObjectId(c.oids + 1)))])

collection_remove(w, f, id) ==
    IF f.store
    THEN [w EXCEPT !.io.removes = @ + 1, !.exc = "AutoReconnect"]
    ELSE [w EXCEPT !.io.removes = @ + 1, !.store = delitem(@, id)]

-----------------------------------------------------------------------------
(* cache_backends: NoCacheBackend and CacheinBackend; n is the position of *)
(* the call among the handler's cache calls.                               *)

cache_get(w, f, n, key) ==
    IF config.MOSESSION_CACHE_BACKEND = "NoCacheBackend"
    THEN [w EXCEPT !.io.cacheGets = @ + 1, !.ret = EmptyDict]
    ELSE IF f.cache = n
    THEN [w EXCEPT !.io.cacheGets = @ + 1, !.exc = "CacheError"]
    ELSE [w EXCEPT !.io.cacheGets = @ + 1, !.ret = get(w.cache, key, EmptyDict)]

cache_set(w, f, n, key, value) ==
    IF config.MOSESSION_CACHE_BACKEND = "NoCacheBackend"
    THEN [w EXCEPT !.io.cacheSets = @ + 1]
    ELSE IF f.cache = n
    THEN [w EXCEPT !.io.cacheSets = @ + 1, !.exc = "CacheError"]
    ELSE [w EXCEPT !.io.cacheSets = @ + 1, !.cache = setitem(@, key, value)]

cache_remove(w, f, n, key) ==
    IF config.MOSESSION_CACHE_BACKEND = "NoCacheBackend"
    THEN [w EXCEPT !.io.cacheRemoves = @ + 1]
    ELSE IF f.cache = n
    THEN [w EXCEPT !.io.cacheRemoves = @ + 1, !.exc = "CacheError"]
    ELSE [w EXCEPT !.io.cacheRemoves = @ + 1, !.cache = delitem(@, key)]

-----------------------------------------------------------------------------
(* MoSession.remove_stored_session, destroy, regenerate: each returns the  *)
(* session as the call leaves it.                                          *)

remove_stored_session(w, f, s) ==
    Try(collection(w, f),
        LAMBDA c :
           IF "_id" \notin DOMAIN s.data THEN Raise(c, "KeyError")
           ELSE Try(collection_remove(c, f, s.data["_id"]),
                    LAMBDA r : cache_remove(r, f, 1, sid(s))))

(* Mutant: destroy without self.clear(). *)
destroy_keeps_data(w, f, s, u) ==
    Try(Return(remove_stored_session(w, f, s), s),
        LAMBDA r : Return(r, generate_sid([s EXCEPT !.new = TRUE], u)))

destroy(w, f, s, u) ==
    Try(Return(remove_stored_session(w, f, s), s),
        LAMBDA r : Return(r, generate_sid([session_clear(s) EXCEPT !.new = TRUE], u)))

(* Mutant: regenerate without self.remove_stored_session(). *)
regenerate_keeps_record(w, f, s, u) ==
    Return(w, generate_sid([s EXCEPT !.new = TRUE], u))

regenerate(w, f, s, u) ==
    Try(Return(remove_stored_session(w, f, s), s),
        LAMBDA r : Return(r, generate_sid([s EXCEPT !.new = TRUE], u)))

-----------------------------------------------------------------------------
(* MoSessionInterface *)

(* Mutant: a cache hit is checked against the collection, whose record wins. *)
load_session_checks_store(w, f, key) ==
    IF key = EmptyStr THEN Return(w, NoSession)
    ELSE Try(cache_get(w, f, 1, key),
             LAMBDA g :
                Try(find_one(g, f, Binary(key)),
                    LAMBDA q :
                       IF q.ret = EmptyDict THEN Return(q, NoSession)
                       ELSE Try(cache_set(q, f, 2, key, q.ret),
                                LAMBDA c : Return(c, MoSession(q.ret, 0)))))

(* Mutant: a cache miss is final, the collection is never queried. *)
load_session_cache_only(w, f, key) ==
    IF key = EmptyStr THEN Return(w, NoSession)
    ELSE Try(cache_get(w, f, 1, key),
             LAMBDA g :
                IF g.ret # EmptyDict THEN Return(g, MoSession(g.ret, 0))
                ELSE Return(g, NoSession))

(* Mutant: a record found in the collection is not written to the cache. *)
load_session_cold(w, f, key) ==
    IF key = EmptyStr THEN Return(w, NoSession)
    ELSE Try(cache_get(w, f, 1, key),
             LAMBDA g :
                IF g.ret # EmptyDict THEN Return(g, MoSession(g.ret, 0))
                ELSE Try(find_one(g, f, Binary(key)),
                         LAMBDA q :
                            IF q.ret = EmptyDict THEN Return(q, NoSession)
                            ELSE Return(q, MoSession(q.ret, 0))))

load_session(w, f, key) ==
    IF key = EmptyStr THEN Return(w, NoSession)
    ELSE Try(cache_get(w, f, 1, key),
             LAMBDA g :
                IF g.ret # EmptyDict THEN Return(g, MoSession(g.ret, 0))
                ELSE Try(find_one(g, f, Binary(key)),
                         LAMBDA q :
                            IF q.ret = EmptyDict THEN Return(q, NoSession)
                            ELSE Try(cache_set(q, f, 2, key, q.ret),
                                     LAMBDA c : Return(c, MoSession(q.ret, 0)))))

open_session(w, f, cookie, u) ==
    Try(load_session(w, f, cookie),
        LAMBDA l :
           IF l.ret.data # EmptyDict THEN l
           ELSE Return(l, MoSession(EmptyDict, u)))

(* Flask's SessionInterface.get_expiration_time: a timestamp for a         *)
(* permanent session, None (the empty sequence) otherwise.                 *)
get_expiration_time(s, utcnow) ==
    IF get_permanent(s) THEN <<utcnow + PermanentSessionLifetime>> ELSE <<>>

get_expire_at_browser_close == ~config.SESSION_EXPIRE_AT_BROWSER_CLOSE

(* Mutant: raw_save_session without the cache write. *)
raw_save_session_store_only(w, f, s) ==
    Try(collection_save(w, f, s.data),
        LAMBDA c :
           IF "_id" \notin DOMAIN s.data THEN Raise(c, "KeyError")
           ELSE c)

raw_save_session(w, f, s) ==
    Try(collection_save(w, f, s.data),
        LAMBDA c :
           IF "_id" \notin DOMAIN s.data THEN Raise(c, "KeyError")
           ELSE cache_set(c, f, 1, sid(s), s.data))

set_cookie(w, value) == [w EXCEPT !.io.cookies = Append(@, value)]

(* save_session, lines 170-175: permanent and, for a new session with an   *)
(* expiration time, expire are set before the session is persisted.        *)
stamp_expire(s1, utcnow) ==
    IF s1.new /\ get_expiration_time(s1, utcnow) # <<>>
    THEN session_setitem(s1, "expire", get_expiration_time(s1, utcnow)[1])
    ELSE s1

stamp(s0, utcnow) ==
    stamp_expire(set_permanent(s0, get_expire_at_browser_close), utcnow)

(* save_session, lines 177-185, on the world r that raw_save_session left. *)
saved(r, s2) ==
    IF r.exc # "" THEN Return(r, s2)
    ELSE IF s2.new
    THEN Return(set_cookie(r, sid(s2)),
                [s2 EXCEPT !.new = FALSE, !.modified = FALSE])
    ELSE Return(r, [s2 EXCEPT !.modified = FALSE])

(* Mutant: the cookie is set on every save that persists, new or not. *)
save_session_always_cookie(w, f, s0, utcnow) ==
    IF ~s0.modified THEN Return(w, s0)
    ELSE Let(stamp(s0, utcnow),
             LAMBDA s2 :
                Let(raw_save_session(w, f, s2),
                    LAMBDA r :
                       IF r.exc # "" THEN Return(r, s2)
                       ELSE Return(set_cookie(r, sid(s2)),
                                   [s2 EXCEPT !.new = FALSE, !.modified = FALSE])))

(* Mutant: the session is persisted before permanent and expire are set. *)
save_session_persist_first(w, f, s0, utcnow) ==
    IF ~s0.modified THEN Return(w, s0)
    ELSE Let(stamp(s0, utcnow),
             LAMBDA s2 : saved(raw_save_session(w, f, s0), s2))

(* Mutant: the cookie of a new session is set before the session is persisted. *)
save_session_cookie_first(w, f, s0, utcnow) ==
    IF ~s0.modified THEN Return(w, s0)
    ELSE Let(stamp(s0, utcnow),
             LAMBDA s2 :
                Let(raw_save_session(IF s2.new /\ "_id" \in DOMAIN s2.data
                                     THEN set_cookie(w, sid(s2)) ELSE w,
                                     f, s2),
                    LAMBDA r :
                       IF r.exc # "" THEN Return(r, s2)
                       ELSE Return(r, [s2 EXCEPT !.new = FALSE,
                                                 !.modified = FALSE])))

save_session(w, f, s0, utcnow) ==
    IF ~s0.modified THEN Return(w, s0)
    ELSE Let(stamp(s0, utcnow),
             LAMBDA s2 : saved(raw_save_session(w, f, s2), s2))

-----------------------------------------------------------------------------
(* The state machine *)

Configs == [MOSESSION_CACHE_BACKEND : {"NoCacheBackend", "CacheinBackend"},
            SESSION_EXPIRE_AT_BROWSER_CLOSE : BOOLEAN]

NoStorage == [connection |-> FALSE, database |-> FALSE, collections |-> FALSE]

NoOp == [op |-> "none", req |-> 0, arg |-> EmptyStr, exc |-> "", io |-> NoIO,
         conn |-> AllOk]

Init ==
    /\ config \in Configs
    /\ store = EmptyDict
    /\ cache = EmptyDict
    /\ storage = NoStorage
    /\ _collection = FALSE
    /\ session = [r \in Reqs |-> NoSession]
    /\ pc = [r \in Reqs |-> "idle"]
    /\ hist = [r \in Reqs |-> NoHist]
    /\ uuids = 0
    /\ oids = 0
    /\ persisted = EmptyDict
    /\ lastOp = NoOp

(* remove_stored_session got as far as removing the record from the store. *)
Removed(w) == w.io.removes = 1 /\ w.exc # "AutoReconnect"

(* The part of the world a handler leaves behind, whether it raised or not. *)
Commit(w, op, r, arg) ==
    /\ store' = w.store
    /\ cache' = w.cache
    /\ storage' = w.storage
    /\ _collection' = w.coll
    /\ oids' = w.oids
    /\ lastOp' = [op |-> op, req |-> r, arg |-> arg, exc |-> w.exc, io |-> w.io,
                  conn |-> AllOk]

(* What open_session, having left the world o, leaves of request r. *)
Opened(r, cookie, o) ==
    /\ (o.exc = "" /\ o.ret.new) => uuids < MaxSid
    /\ Commit(o, "open", r, cookie)
    /\ uuids' = IF o.exc = "" /\ o.ret.new THEN uuids + 1 ELSE uuids
    /\ session' = [session EXCEPT ![r] = IF o.exc = "" THEN o.ret ELSE NoSession]
    /\ pc' = [pc EXCEPT ![r] = IF o.exc = "" THEN "open" ELSE "idle"]
    /\ hist' = [hist EXCEPT ![r] =
                  IF o.exc # "" THEN NoHist
                  ELSE [NoHist EXCEPT !.origin =
                          IF o.ret.new THEN "fresh" ELSE "loaded"]]

(* A request arrives with a cookie (EmptyStr: none) and opens its session. *)
OpenSession(r) ==
    /\ pc[r] = "idle"
    /\ \E cookie \in {EmptyStr} \cup (1..uuids), f \in Faults :
         Opened(r, cookie, open_session(World, f, cookie, uuids + 1))
    /\ UNCHANGED <<config, persisted>>

(* The application sets a key of flask.session. *)
SetItem(r) ==
    /\ pc[r] = "open"
    /\ \E k \in AppKeys, v \in AppValues :
         session' = [session EXCEPT ![r] = session_setitem(@, k, v)]
    /\ hist' = [hist EXCEPT ![r].touched = TRUE]
    /\ lastOp' = [NoOp EXCEPT !.op = "setitem", !.req = r]
    /\ UNCHANGED <<config, store, cache, storage, _collection, pc, uuids, oids,
                   persisted>>

(* The application deletes a key of flask.session. *)
DelItem(r) ==
    /\ pc[r] = "open"
    /\ \E k \in DOMAIN session[r].data \cap DelKeys :
         session' = [session EXCEPT ![r] = session_delitem(@, k)]
    /\ hist' = [hist EXCEPT ![r].touched = TRUE]
    /\ lastOp' = [NoOp EXCEPT !.op = "delitem", !.req = r]
    /\ UNCHANGED <<config, store, cache, storage, _collection, pc, uuids, oids,
                   persisted>>

(* What save_session, having left the world o, leaves of request r. *)
Saved(r, o) ==
    /\ Commit(o, "save", r, EmptyStr)
    /\ session' = [session EXCEPT ![r] = o.ret]
    /\ persisted' = IF o.exc = "" /\ session[r].modified
                    THEN setitem(persisted, sid(o.ret), o.ret.data)
                    ELSE persisted

SaveSession(r) ==
    /\ pc[r] = "open"
    /\ "_id" \in DOMAIN session[r].data \/ oids < MaxOid
    /\ \E f \in Faults, t \in Times :
         Saved(r, save_session(World, f, session[r], t))
    /\ UNCHANGED <<config, pc, hist, uuids>>

(* What destroy or regenerate, having left the world o, leaves of request r. *)
Replaced(r, op, o) ==
    /\ Commit(o, op, r, EmptyStr)
    /\ session' = [session EXCEPT ![r] = o.ret]
    /\ uuids' = IF o.exc = "" THEN uuids + 1 ELSE uuids
    /\ hist' = [hist EXCEPT ![r].touched = @ \/ (o.exc = "")]
    /\ persisted' = IF Removed(o) THEN delitem(persisted, sid(session[r]))
                    ELSE persisted

Destroy(r) ==
    /\ pc[r] = "open"
    /\ uuids < MaxSid
    /\ \E f \in Faults :
         Replaced(r, "destroy", destroy(World, f, session[r], uuids + 1))
    /\ UNCHANGED <<config, pc>>

Regenerate(r) ==
    /\ pc[r] = "open"
    /\ uuids < MaxSid
    /\ \E f \in Faults :
         Replaced(r, "regenerate", regenerate(World, f, session[r], uuids + 1))
    /\ UNCHANGED <<config, pc>>

(* The request is over; its MoSession is dropped. *)
EndRequest(r) ==
    /\ pc[r] = "open"
    /\ session' = [session EXCEPT ![r] = NoSession]
    /\ pc' = [pc EXCEPT ![r] = "idle"]
    /\ hist' = [hist EXCEPT ![r] = NoHist]
    /\ lastOp' = [NoOp EXCEPT !.op = "end", !.req = r]
    /\ UNCHANGED <<config, store, cache, storage, _collection, uuids, oids,
                   persisted>>

Next ==
    \/ \E r \in Reqs : OpenSession(r)
    \/ \E r \in Reqs : SetItem(r)
    \/ \E r \in Reqs : DelItem(r)
    \/ \E r \in Reqs : SaveSession(r)
    \/ \E r \in Reqs : Destroy(r)
    \/ \E r \in Reqs : Regenerate(r)
    \/ \E r \in Reqs : EndRequest(r)

Spec == Init /\ [][Next]_vars

-----------------------------------------------------------------------------
(* SessionStorage.connect called on its own, with every sequence of        *)
(* outcomes of its Connection() attempts: the package's and the module's.  *)

Connected(op, c, outcomes) ==
    /\ storage' = c.st
    /\ lastOp' = [NoOp EXCEPT !.op = op, !.exc = c.exc,
                              !.io.attempts = c.attempts, !.conn = outcomes]

Connect ==
    /\ \E outcomes \in ConnOutcomes :
         Connected("connect", connect(storage, outcomes), outcomes)
    /\ UNCHANGED <<config, store, cache, _collection, session, pc, hist, uuids,
                   oids, persisted>>

ConnectModule ==
    /\ \E outcomes \in ConnOutcomes :
         Connected("connect_module", connect_module(storage, outcomes), outcomes)
    /\ UNCHANGED <<config, store, cache, _collection, session, pc, hist, uuids,
                   oids, persisted>>

NextConnect == Connect \/ ConnectModule

SpecConnect == Init /\ [][NextConnect]_vars

-----------------------------------------------------------------------------
(* Properties.  A step of handler op for request r is a step whose lastOp' *)
(* names them: every action writes its own name to lastOp.                 *)

Cachein == config.MOSESSION_CACHE_BACKEND = "CacheinBackend"
NoCache == config.MOSESSION_CACHE_BACKEND = "NoCacheBackend"

Rehydrated(d) == [data |-> d, new |-> FALSE, modified |-> FALSE]

(* C1: saving a session that was rehydrated by load_session and on which   *)
(* no key was set or deleted since calls neither collection.save nor       *)
(* cache.set nor set_cookie, and leaves store, cache and session as they   *)
(* were.                                                                   *)
C1_IdleNeverPersists ==
    [][\A r \in Reqs :
         (/\ lastOp'.op = "save" /\ lastOp'.req = r
          /\ hist[r].origin = "loaded" /\ ~hist[r].touched)
         => /\ lastOp'.exc = ""
            /\ lastOp'.io.saves = 0
            /\ lastOp'.io.cacheSets = 0
            /\ lastOp'.io.cookies = <<>>
            /\ UNCHANGED <<store, cache, session>>]_vars

C1_Witness ==
    \E r \in Reqs :
        /\ lastOp.op = "save" /\ lastOp.req = r
        /\ hist[r].origin = "loaded" /\ ~hist[r].touched
        /\ "uid" \in DOMAIN session[r].data

(* C2: saving a session that open_session built fresh and that the         *)
(* application never touched writes nothing to the store or the cache.     *)
C2_EmptyNeverStored ==
    \A r \in Reqs :
        (/\ lastOp.op = "save" /\ lastOp.req = r
         /\ hist[r].origin = "fresh" /\ ~hist[r].touched)
        => /\ lastOp.io.saves = 0
           /\ lastOp.io.cacheSets = 0
           /\ Binary(sid(session[r])) \notin DOMAIN store

(* C3, as stated: after a save of a modified session that returns          *)
(* normally, the store's record and the cache's record for its id both     *)
(* equal its data, and modified is false.                                  *)
C3_WriteThroughBoth ==
    [][\A r \in Reqs :
         (/\ lastOp'.op = "save" /\ lastOp'.req = r /\ lastOp'.exc = ""
          /\ session[r].modified)
         => LET s == session'[r]
            IN  /\ get(store', s.data["_id"], EmptyDict) = s.data
                /\ get(cache', sid(s), EmptyDict) = s.data
                /\ ~s.modified]_vars

(* C3, amended: after a save of a modified session that returns normally,  *)
(* the store's record for its id equals its data and modified is false;    *)
(* the cache's record equals its data under CacheinBackend, and under      *)
(* NoCacheBackend the cache holds nothing.                                 *)
C3_WriteThrough ==
    [][\A r \in Reqs :
         (/\ lastOp'.op = "save" /\ lastOp'.req = r /\ lastOp'.exc = ""
          /\ session[r].modified)
         => LET s == session'[r]
            IN  /\ get(store', s.data["_id"], EmptyDict) = s.data
                /\ Cachein => get(cache', sid(s), EmptyDict) = s.data
                /\ NoCache => cache' = EmptyDict
                /\ lastOp'.io.saves = 1 /\ lastOp'.io.cacheSets = 1
                /\ ~s.modified]_vars

C3_Witness ==
    \E r \in Reqs :
        /\ lastOp.op = "save" /\ lastOp.req = r /\ lastOp.exc = ""
        /\ lastOp.io.saves = 1
        /\ Cachein
        /\ hist[r].origin = "loaded"
        /\ get(cache, sid(session[r]), EmptyDict) = session[r].data
        /\ get(store, session[r].data["_id"], EmptyDict) = session[r].data

(* A load_session(c) step for a non-empty c that finds c's record only in  *)
(* the store, and returns.                                                 *)
LoadsFromStore(r, c) ==
    /\ lastOp'.op = "open" /\ lastOp'.req = r /\ lastOp'.arg = c /\ c # EmptyStr
    /\ lastOp'.exc = ""
    /\ get(cache, c, EmptyDict) = EmptyDict
    /\ get(store, Binary(c), EmptyDict) # EmptyDict

(* A load_session(c) step that finds c's record in the cache. *)
LoadsFromCache(r, c) ==
    /\ lastOp'.op = "open" /\ lastOp'.req = r /\ lastOp'.arg = c /\ c # EmptyStr
    /\ get(cache, c, EmptyDict) # EmptyDict

(* C4, as stated: a load of an id whose record is only in the store writes *)
(* that record to the cache and returns a session equal to it; a load of   *)
(* an id the cache holds does not query the store.                         *)
C4_CacheThenStoreAlways ==
    [][\A r \in Reqs : \A c \in 1..MaxSid :
         /\ LoadsFromStore(r, c)
            => /\ session'[r] = Rehydrated(store[Binary(c)])
               /\ get(cache', c, EmptyDict) = store[Binary(c)]
         /\ LoadsFromCache(r, c) => lastOp'.io.finds = 0]_vars

(* C4, amended: a load of an id whose record is only in the store returns  *)
(* a session equal to the record after one find_one; under CacheinBackend  *)
(* it writes the record to the cache, and a load of an id the cache holds  *)
(* returns the cache's record and does not query the store; under          *)
(* NoCacheBackend nothing is cached and every load that returns queried    *)
(* the store.                                                              *)
C4_CacheThenStore ==
    [][\A r \in Reqs : \A c \in 1..MaxSid :
         /\ LoadsFromStore(r, c)
            => /\ session'[r] = Rehydrated(store[Binary(c)])
               /\ lastOp'.io.finds = 1
               /\ Cachein => get(cache', c, EmptyDict) = store[Binary(c)]
               /\ NoCache => cache' = EmptyDict
         /\ LoadsFromCache(r, c)
            => /\ lastOp'.io.finds = 0
               /\ lastOp'.exc = "" => session'[r] = Rehydrated(cache[c])
         /\ (/\ lastOp'.op = "open" /\ lastOp'.req = r /\ lastOp'.arg = c
             /\ lastOp'.exc = "" /\ NoCache)
            => lastOp'.io.finds = 1]_vars

C4_Witness ==
    \E r \in Reqs :
        /\ lastOp.op = "open" /\ lastOp.req = r /\ lastOp.exc = ""
        /\ lastOp.arg # EmptyStr
        /\ lastOp.io.finds = 1 /\ lastOp.io.cacheSets = 1
        /\ Cachein
        /\ "uid" \in DOMAIN session[r].data
        /\ get(cache, lastOp.arg, EmptyDict) = session[r].data
        /\ get(store, Binary(lastOp.arg), EmptyDict) = session[r].data

(* C5: a save of a new session that returns sets the cookie once, to the   *)
(* session's sid, and clears new; a save of a session that is not new sets *)
(* no cookie; no save sets more than one cookie.                           *)
C5_NewSessionCookie ==
    [][\A r \in Reqs :
         (lastOp'.op = "save" /\ lastOp'.req = r)
         => /\ Len(lastOp'.io.cookies) <= 1
            /\ (session[r].new /\ lastOp'.exc = "")
               => /\ lastOp'.io.cookies = <<sid(session'[r])>>
                  /\ sid(session'[r]) = sid(session[r])
                  /\ ~session'[r].new
            /\ ~session[r].new => lastOp'.io.cookies = <<>>]_vars

C5_Witness ==
    \E r \in Reqs :
        /\ lastOp.op = "save" /\ lastOp.req = r /\ lastOp.exc = ""
        /\ lastOp.io.cookies = <<sid(session[r])>>
        /\ hist[r].origin = "loaded"

(* C6: a regenerate that returns leaves every key but '_id' as it was,     *)
(* gives the session another id, sets new, and leaves no record of the old *)
(* id in the store or the cache.                                           *)
C6_RegeneratePreserves ==
    [][\A r \in Reqs :
         (lastOp'.op = "regenerate" /\ lastOp'.req = r /\ lastOp'.exc = "")
         => LET old == session[r]
                s == session'[r]
            IN  /\ delitem(s.data, "_id") = delitem(old.data, "_id")
                /\ "_id" \in DOMAIN s.data
                /\ s.data["_id"] # old.data["_id"]
                /\ s.new
                /\ old.data["_id"] \notin DOMAIN store'
                /\ sid(old) \notin DOMAIN cache']_vars

C6_Witness ==
    \E r \in Reqs :
        /\ lastOp.op = "regenerate" /\ lastOp.req = r /\ lastOp.exc = ""
        /\ hist[r].origin = "loaded"
        /\ Cachein
        /\ "uid" \in DOMAIN session[r].data
        /\ session[r].new

(* C7: a destroy that returns leaves the session with no key but '_id',    *)
(* which differs from the old one, and leaves no record of the old id in   *)
(* the store or the cache.                                                 *)
C7_DestroyClears ==
    [][\A r \in Reqs :
         (lastOp'.op = "destroy" /\ lastOp'.req = r /\ lastOp'.exc = "")
         => LET old == session[r]
                s == session'[r]
            IN  /\ DOMAIN s.data = {"_id"}
                /\ s.data["_id"] # old.data["_id"]
                /\ old.data["_id"] \notin DOMAIN store'
                /\ sid(old) \notin DOMAIN cache']_vars

C7_Witness ==
    \E r \in Reqs :
        /\ lastOp.op = "destroy" /\ lastOp.req = r /\ lastOp.exc = ""
        /\ hist[r].origin = "loaded"
        /\ Cachein
        /\ DOMAIN session[r].data = {"_id"}
        /\ store = EmptyDict /\ cache = EmptyDict

AllFail(outcomes) == \A i \in 1..ConnectionAttempts : outcomes[i] = "AutoReconnect"

FirstOkAt(outcomes, k) ==
    /\ outcomes[k] = "ok"
    /\ \A i \in 1..(k - 1) : outcomes[i] = "AutoReconnect"

(* C8: a connect of an unconnected SessionStorage (the package's or the    *)
(* module's) makes at most 5 attempts; when every attempt raises           *)
(* AutoReconnect it makes exactly 5 and raises ConnectionFailure; when     *)
(* attempt k is the first to succeed it makes exactly k, raises nothing    *)
(* and is connected.                                                       *)
C8_BoundedReconnect ==
    [][(lastOp'.op \in {"connect", "connect_module"} /\ ~storage.connection)
        => /\ lastOp'.io.attempts <= ConnectionAttempts
           /\ AllFail(lastOp'.conn)
              => /\ lastOp'.io.attempts = ConnectionAttempts
                 /\ lastOp'.exc = "ConnectionFailure"
                 /\ ~storage'.connection
           /\ \A k \in 1..ConnectionAttempts :
                FirstOkAt(lastOp'.conn, k)
                => /\ lastOp'.io.attempts = k
                   /\ lastOp'.exc = ""
                   /\ storage'.connection /\ storage'.database]_vars

(* C8 for the package's connect alone (src/flask_mosession/__init__.py). *)
C8_PackageConnect ==
    [][(lastOp'.op = "connect" /\ ~storage.connection)
        => /\ lastOp'.io.attempts <= ConnectionAttempts
           /\ AllFail(lastOp'.conn)
              => /\ lastOp'.io.attempts = ConnectionAttempts
                 /\ lastOp'.exc = "ConnectionFailure"
                 /\ ~storage'.connection
           /\ \A k \in 1..ConnectionAttempts :
                FirstOkAt(lastOp'.conn, k)
                => /\ lastOp'.io.attempts = k
                   /\ lastOp'.exc = ""
                   /\ storage'.connection /\ storage'.database]_vars

(* C9: the save of a fresh session that returns leaves in the store, under *)
(* the session's id U, the session's data with every key the application   *)
(* wrote, and sets the cookie to U; a later load of an id returns the data *)
(* of the id's last save that returned, with new and modified false; and   *)
(* the save of a loaded session nobody touched calls neither               *)
(* collection.save nor cache.set nor set_cookie.                           *)
C9_RoundTrip ==
    [][\A r \in Reqs :
         /\ (/\ lastOp'.op = "save" /\ lastOp'.req = r /\ lastOp'.exc = ""
             /\ hist[r].origin = "fresh" /\ session[r].new)
            => LET U == sid(session[r])
                   rec == get(store', Binary(U), EmptyDict)
               IN  /\ rec = session'[r].data
                   /\ rec["_id"] = Binary(U)
                   /\ \A k \in AppKeys \cap DOMAIN session[r].data :
                        k \in DOMAIN rec /\ rec[k] = session[r].data[k]
                   /\ DOMAIN rec \cap AppKeys \subseteq DOMAIN session[r].data
                   /\ lastOp'.io.cookies = <<U>>
                   /\ persisted'[U] = rec
         /\ (/\ lastOp'.op = "open" /\ lastOp'.req = r /\ lastOp'.exc = ""
             /\ lastOp'.arg \in DOMAIN persisted)
            => session'[r] = Rehydrated(persisted[lastOp'.arg])
         /\ (/\ lastOp'.op = "save" /\ lastOp'.req = r
             /\ hist[r].origin = "loaded" /\ ~hist[r].touched)
            => /\ lastOp'.io.saves = 0
               /\ lastOp'.io.cacheSets = 0
               /\ lastOp'.io.cookies = <<>>]_vars

C9_Witness ==
    \E r \in Reqs :
        /\ lastOp.op = "open" /\ lastOp.req = r /\ lastOp.exc = ""
        /\ lastOp.arg \in DOMAIN persisted
        /\ session[r] = Rehydrated(persisted[lastOp.arg])
        /\ "uid" \in DOMAIN session[r].data
        /\ lastOp.io.finds = 1

(* C10: when save_session raises, the store's record for the session's id  *)
(* is what it was before the save, and the session is still modified.      *)
C10_FailedSaveKeepsRecord ==
    [][\A r \in Reqs :
         (lastOp'.op = "save" /\ lastOp'.req = r /\ lastOp'.exc # "")
         => /\ get(store', session[r].data["_id"], EmptyDict)
                 = get(store, session[r].data["_id"], EmptyDict)
            /\ session'[r].modified]_vars

-----------------------------------------------------------------------------
(* The application may write any key of the mapping: MoSession inherits    *)
(* __delitem__ from CallbackDict and does not guard '_id'.                 *)

DelId(r) ==
    /\ pc[r] = "open"
    /\ "_id" \in DOMAIN session[r].data
    /\ session' = [session EXCEPT ![r] = session_delitem(@, "_id")]
    /\ hist' = [hist EXCEPT ![r].touched = TRUE]
    /\ lastOp' = [NoOp EXCEPT !.op = "delitem", !.req = r]
    /\ UNCHANGED <<config, store, cache, storage, _collection, pc, uuids, oids,
                   persisted>>

NextKeys ==
    \/ Next
    \/ \E r \in Reqs : DelId(r)

SpecKeys == Init /\ [][NextKeys]_vars

(* C11: every open session has an '_id', and a step that is neither a      *)
(* regenerate nor a destroy leaves the '_id' of a session that stays open  *)
(* as it was.                                                              *)
C11_IdStable ==
    [][\A r \in Reqs :
         /\ pc'[r] = "open" => "_id" \in DOMAIN session'[r].data
         /\ (/\ pc[r] = "open" /\ pc'[r] = "open"
             /\ lastOp'.op \notin {"regenerate", "destroy"})
            => get(session'[r].data, "_id", EmptyStr)
                 = get(session[r].data, "_id", EmptyStr)]_vars

(* C12: an open session whose data differs from the store's record for its *)
(* id (no record counts as differing) is modified; and modified goes from  *)
(* true to false only in a save_session that called collection.save and    *)
(* returned.                                                               *)
C12_DirtyTracking ==
    [][\A r \in Reqs :
         /\ (/\ pc'[r] = "open"
             /\ session'[r].data
                  # get(store', get(session'[r].data, "_id", EmptyStr), EmptyDict))
            => session'[r].modified
         /\ (/\ pc[r] = "open" /\ pc'[r] = "open"
             /\ session[r].modified /\ ~session'[r].modified)
            => /\ lastOp'.op = "save" /\ lastOp'.req = r
               /\ lastOp'.io.saves = 1
               /\ lastOp'.exc = ""]_vars

(* C12, second half alone: modified is cleared only by a save that         *)
(* persisted.                                                              *)
C12_ClearedOnlyBySave ==
    [][\A r \in Reqs :
         (/\ pc[r] = "open" /\ pc'[r] = "open"
          /\ session[r].modified /\ ~session'[r].modified)
         => /\ lastOp'.op = "save" /\ lastOp'.req = r
            /\ lastOp'.io.saves = 1
            /\ lastOp'.exc = ""]_vars

-----------------------------------------------------------------------------
(* A worker process starts: MoSessionExtension is built anew, with no      *)
(* connection and no collection, and no request in flight.  The store and  *)
(* the external cache live outside the process and keep their records.     *)

Restart ==
    /\ storage' = NoStorage
    /\ _collection' = FALSE
    /\ session' = [r \in Reqs |-> NoSession]
    /\ pc' = [r \in Reqs |-> "idle"]
    /\ hist' = [r \in Reqs |-> NoHist]
    /\ lastOp' = [NoOp EXCEPT !.op = "restart"]
    /\ UNCHANGED <<config, store, cache, uuids, oids, persisted>>

NextRestart ==
    \/ Next
    \/ Restart

SpecRestart == Init /\ [][NextRestart]_vars

(* The store is unreachable: every Connection() attempt raises             *)
(* AutoReconnect, and so would a call on the collection.                   *)
Unreachable ==
    [conn |-> [i \in 1..ConnectionAttempts |-> "AutoReconnect"],
     store |-> TRUE,
     cache |-> 0]

(* C13: in a process that holds no collection yet, a step that is          *)
(* open_session of a non-empty id, or save_session of a modified session,  *)
(* with the store unreachable, raises ConnectionFailure.                   *)
C13_NoDegradedMode ==
    [][\A r \in Reqs :
         /\ (/\ ~_collection /\ pc[r] = "idle" /\ lastOp'.arg # EmptyStr
             /\ Opened(r, lastOp'.arg,
                       open_session(World, Unreachable, lastOp'.arg, uuids + 1)))
            => lastOp'.exc = "ConnectionFailure"
         /\ (/\ ~_collection /\ pc[r] = "open" /\ session[r].modified
             /\ \E t \in Times :
                  Saved(r, save_session(World, Unreachable, session[r], t)))
            => lastOp'.exc = "ConnectionFailure"]_vars

(* C13 for the calls that reach the store: a save of a modified session,   *)
(* and a load the cache does not answer.                                   *)
C13_StoreCallsRaise ==
    [][\A r \in Reqs :
         /\ (/\ ~_collection /\ pc[r] = "idle" /\ lastOp'.arg # EmptyStr
             /\ get(cache, lastOp'.arg, EmptyDict) = EmptyDict
             /\ Opened(r, lastOp'.arg,
                       open_session(World, Unreachable, lastOp'.arg, uuids + 1)))
            => lastOp'.exc = "ConnectionFailure"
         /\ (/\ ~_collection /\ pc[r] = "open" /\ session[r].modified
             /\ \E t \in Times :
                  Saved(r, save_session(World, Unreachable, session[r], t)))
            => lastOp'.exc = "ConnectionFailure"]_vars

-----------------------------------------------------------------------------
(* C14: under NoCacheBackend the cache never holds a record, and an        *)
(* open_session that returns gives, for a non-empty id the store holds,    *)
(* the session rehydrated from the store's record after one find_one, and  *)
(* otherwise a new session holding nothing but a fresh '_id'.              *)
C14_NoCacheStoreOnly ==
    [][NoCache =>
         /\ cache' = EmptyDict
         /\ \A r \in Reqs :
              (lastOp'.op = "open" /\ lastOp'.req = r /\ lastOp'.exc = "")
              => IF lastOp'.arg # EmptyStr /\ Binary(lastOp'.arg) \in DOMAIN store
                 THEN /\ session'[r] = Rehydrated(store[Binary(lastOp'.arg)])
                      /\ lastOp'.io.finds = 1
                      /\ store' = store
                 ELSE /\ session'[r].new
                      /\ session'[r].data = [_id |-> Binary(uuids')]
                      /\ lastOp'.io.finds = IF lastOp'.arg = EmptyStr THEN 0 ELSE 1
                      /\ store' = store]_vars

C14_Witness ==
    \E r \in Reqs :
        /\ NoCache
        /\ lastOp.op = "open" /\ lastOp.req = r /\ lastOp.exc = ""
        /\ lastOp.arg # EmptyStr
        /\ lastOp.io.finds = 1 /\ lastOp.io.cacheGets = 1
        /\ Binary(lastOp.arg) \in DOMAIN store
        /\ session[r] = Rehydrated(store[Binary(lastOp.arg)])
        /\ "uid" \in DOMAIN session[r].data

(* C15: a save_session that directly follows a destroy that returned, on   *)
(* the same session, calls neither collection.save nor cache.set and       *)
(* leaves the store and the cache as they were.                            *)
C15_DestroyThenSave ==
    [][\A r \in Reqs :
         (/\ lastOp.op = "destroy" /\ lastOp.req = r /\ lastOp.exc = ""
          /\ lastOp'.op = "save" /\ lastOp'.req = r)
         => /\ lastOp'.io.saves = 0
            /\ lastOp'.io.cacheSets = 0
            /\ UNCHANGED <<store, cache>>]_vars

(* The calls a handler made on the collection. *)
StoreCalls(io) == io.finds + io.saves + io.removes

(* C16: a handler that calls the collection while the extension holds it   *)
(* makes no connection attempt; and a handler that calls the collection    *)
(* right after a handler whose collection call raised AutoReconnect makes  *)
(* between 1 and 5 connection attempts.                                    *)
C16_ReconnectOnDemand ==
    [][/\ (_collection /\ StoreCalls(lastOp'.io) >= 1 /\ lastOp.exc # "AutoReconnect")
          => lastOp'.io.attempts = 0
       /\ (lastOp.exc = "AutoReconnect" /\ StoreCalls(lastOp'.io) >= 1)
          => lastOp'.io.attempts \in 1..ConnectionAttempts]_vars

(* C16, first half, and what the code does for the second: once the        *)
(* extension holds the collection no handler makes a connection attempt,   *)
(* whether or not a collection call raised AutoReconnect before.           *)
C16_ConnectionReused ==
    [][_collection => /\ lastOp'.io.attempts = 0
                      /\ _collection'
                      /\ storage' = storage]_vars

(* C17: an open_session of a non-empty id the cache holds makes one        *)
(* cache.get and no call on the collection, leaves store and cache as they *)
(* were and, when it returns, gives the session rehydrated from the        *)
(* cache's record, whatever the store holds for the id; an open_session    *)
(* with the empty id calls neither the cache nor the collection and gives  *)
(* a new session.                                                          *)
C17_CacheHitTrusted ==
    [][\A r \in Reqs :
         (lastOp'.op = "open" /\ lastOp'.req = r)
         => /\ (lastOp'.arg # EmptyStr
                /\ get(cache, lastOp'.arg, EmptyDict) # EmptyDict)
               => /\ lastOp'.io.cacheGets = 1
                  /\ StoreCalls(lastOp'.io) = 0
                  /\ lastOp'.io.cacheSets = 0
                  /\ UNCHANGED <<store, cache>>
                  /\ lastOp'.exc = ""
                     => session'[r] = Rehydrated(cache[lastOp'.arg])
            /\ lastOp'.arg = EmptyStr
               => /\ lastOp'.io.cacheGets = 0
                  /\ StoreCalls(lastOp'.io) = 0
                  /\ lastOp'.exc = ""
                  /\ session'[r].new
                  /\ UNCHANGED <<store, cache>>]_vars

(* A cache hit on a record the store no longer holds as such. *)
C17_Witness ==
    \E r \in Reqs :
        /\ lastOp.op = "open" /\ lastOp.req = r /\ lastOp.exc = ""
        /\ lastOp.arg # EmptyStr
        /\ lastOp.io.cacheGets = 1 /\ StoreCalls(lastOp.io) = 0
        /\ session[r] = Rehydrated(cache[lastOp.arg])
        /\ get(store, Binary(lastOp.arg), EmptyDict) # cache[lastOp.arg]

-----------------------------------------------------------------------------
(* Saves at different instants: a session saved at one instant is saved    *)
(* again at a later one.                                                   *)

LaterTimes == {2}

SaveLater(r) ==
    /\ pc[r] = "open"
    /\ "_id" \in DOMAIN session[r].data \/ oids < MaxOid
    /\ \E f \in Faults, t \in LaterTimes :
         Saved(r, save_session(World, f, session[r], t))
    /\ UNCHANGED <<config, pc, hist, uuids>>

NextExpire ==
    \/ Next
    \/ \E r \in Reqs : SaveLater(r)

SpecExpire == Init /\ [][NextExpire]_vars

(* The value under key k, as a sequence: empty when d has no k. *)
opt(d, k) == IF k \in DOMAIN d THEN <<d[k]>> ELSE <<>>

(* C18: a save_session changes the session's 'expire' only when the        *)
(* session is new and permanent, and then to an instant plus the lifetime; *)
(* a save of a session that is not new leaves the session's 'expire' as it *)
(* was; and a save of a session whose id the store holds leaves the        *)
(* 'expire' of the store's record as it was.                               *)
C18_ExpireNeverRestamped ==
    [][\A r \in Reqs :
         (lastOp'.op = "save" /\ lastOp'.req = r)
         => /\ opt(session'[r].data, "expire") # opt(session[r].data, "expire")
               => /\ session[r].new
                  /\ get_permanent(session'[r])
                  /\ \E t \in Times \cup LaterTimes :
                       session'[r].data["expire"] = t + PermanentSessionLifetime
            /\ ~session[r].new
               => opt(session'[r].data, "expire") = opt(session[r].data, "expire")
            /\ Binary(sid(session[r])) \in DOMAIN store
               => opt(get(store', session[r].data["_id"], EmptyDict), "expire")
                    = opt(store[session[r].data["_id"]], "expire")]_vars

(* C18 for the sessions whose save returned: as above, with the last part  *)
(* for the ids a save_session has returned for.                            *)
C18_ExpireAtCreation ==
    [][\A r \in Reqs :
         (lastOp'.op = "save" /\ lastOp'.req = r)
         => /\ opt(session'[r].data, "expire") # opt(session[r].data, "expire")
               => /\ session[r].new
                  /\ get_permanent(session'[r])
                  /\ \E t \in Times \cup LaterTimes :
                       session'[r].data["expire"] = t + PermanentSessionLifetime
            /\ ~session[r].new
               => opt(session'[r].data, "expire") = opt(session[r].data, "expire")
            /\ sid(session[r]) \in DOMAIN persisted
               => opt(get(store', session[r].data["_id"], EmptyDict), "expire")
                    = opt(get(store, session[r].data["_id"], EmptyDict), "expire")]_vars

-----------------------------------------------------------------------------
(* Concurrent requests bearing the same id X.  Each request runs           *)
(* open_session, the application's code and save_session once; a call on  *)
(* the collection and a call on the cache are separate steps, and the      *)
(* steps of the requests interleave.  No call fails.                       *)
(*                                                                         *)
(* pc[r]: "idle", "load_store" (cache.get missed), "load_set" (find_one    *)
(* found the record, kept in session[r].data), "open", "destroy_cache" and *)
(* "regenerate_cache" (collection.remove done), "save_cache"               *)
(* (collection.save done), "done".  persisted keeps X until a              *)
(* collection.remove of X.                                                 *)

Concurrent == {1, 2}
X == 1
OtherValues == {43}

NoFault == [conn |-> AllOk, store |-> FALSE, cache |-> 0]

(* The world before the first request, and the save that created X. *)
World0 == [store |-> EmptyDict, cache |-> EmptyDict, storage |-> NoStorage,
           coll |-> FALSE, oids |-> 0, io |-> NoIO, exc |-> "",
           ret |-> EmptyDict]

FirstSave ==
    save_session(World0, NoFault,
                 session_setitem(MoSession(EmptyDict, X), "uid", 42), 1)

(* X was saved by an earlier request; the cache holds its record, or holds *)
(* nothing (a cache.set that failed, as in C10, or an expired entry).      *)
InitConcurrent ==
    /\ config \in Configs
    /\ store = FirstSave.store
    /\ cache \in {FirstSave.cache, EmptyDict}
    /\ storage = FirstSave.storage
    /\ _collection = FirstSave.coll
    /\ session = [r \in Concurrent |-> NoSession]
    /\ pc = [r \in Concurrent |-> "idle"]
    /\ hist = [r \in Concurrent |-> NoHist]
    /\ uuids = X
    /\ oids = 0
    /\ persisted = X :> FirstSave.ret.data
    /\ lastOp = NoOp

(* load_session, line 123: cache.get(sid). *)
CacheAnswered(r, g) ==
    /\ Commit(g, "load_cache", r, X)
    /\ session' = [session EXCEPT ![r] =
                     IF g.ret # EmptyDict THEN MoSession(g.ret, 0) ELSE @]
    /\ pc' = [pc EXCEPT ![r] = IF g.ret # EmptyDict THEN "open" ELSE "load_store"]

LoadCache(r) ==
    /\ pc[r] = "idle"
    /\ CacheAnswered(r, cache_get(World, NoFault, 1, X))
    /\ UNCHANGED <<config, hist, uuids, persisted>>

(* load_session, line 125: find_one; with no record load_session returns   *)
(* None and open_session builds a new session (line 144).                  *)
StoreAnswered(r, q) ==
    /\ q.ret = EmptyDict => uuids - X < MaxSid
    /\ Commit(q, "load_store", r, X)
    /\ session' = [session EXCEPT ![r] =
                     IF q.ret = EmptyDict THEN MoSession(EmptyDict, uuids + 1)
                     ELSE [NoSession EXCEPT !.data = q.ret]]
    /\ uuids' = IF q.ret = EmptyDict THEN uuids + 1 ELSE uuids
    /\ pc' = [pc EXCEPT ![r] = IF q.ret = EmptyDict THEN "open" ELSE "load_set"]

LoadStore(r) ==
    /\ pc[r] = "load_store"
    /\ StoreAnswered(r, find_one(World, NoFault, Binary(X)))
    /\ UNCHANGED <<config, hist, persisted>>

(* load_session, lines 128-131: cache.set(sid, stored_session), then the   *)
(* session is built from stored_session.                                   *)
LoadCacheSet(r) ==
    /\ pc[r] = "load_set"
    /\ Commit(cache_set(World, NoFault, 2, X, session[r].data), "load_set", r, X)
    /\ session' = [session EXCEPT ![r] = MoSession(@.data, 0)]
    /\ pc' = [pc EXCEPT ![r] = "open"]
    /\ UNCHANGED <<config, hist, uuids, persisted>>

(* The application sets a key of its session. *)
ConcurrentSetItem(r) ==
    /\ pc[r] = "open"
    /\ \E k \in AppKeys, v \in AppValues \cup OtherValues :
         session' = [session EXCEPT ![r] = session_setitem(@, k, v)]
    /\ lastOp' = [NoOp EXCEPT !.op = "setitem", !.req = r]
    /\ UNCHANGED <<config, store, cache, storage, _collection, pc, hist, uuids,
                   oids, persisted>>

(* save_session, lines 168-175 and raw_save_session, line 148: a session   *)
(* that is not modified is not saved and the request is over; otherwise    *)
(* permanent and expire are set and collection.save is called.             *)
StoreSaved(r, s2, c) ==
    /\ Commit(c, "save_store", r, EmptyStr)
    /\ session' = [session EXCEPT ![r] = s2]
    /\ pc' = [pc EXCEPT ![r] = "save_cache"]

SaveStore(r) ==
    /\ pc[r] = "open"
    /\ IF session[r].modified
       THEN \E t \in Times :
              StoreSaved(r, stamp(session[r], t),
                         collection_save(World, NoFault, stamp(session[r], t).data))
       ELSE /\ pc' = [pc EXCEPT ![r] = "done"]
            /\ lastOp' = [NoOp EXCEPT !.op = "save", !.req = r]
            /\ UNCHANGED <<store, cache, storage, _collection, session, oids>>
    /\ UNCHANGED <<config, hist, uuids, persisted>>

(* raw_save_session, line 149: cache.set(session.sid, dict_session), and   *)
(* save_session, lines 179-185.                                            *)
CacheSaved(r, o) ==
    /\ Commit(o, "save", r, EmptyStr)
    /\ session' = [session EXCEPT ![r] = o.ret]
    /\ pc' = [pc EXCEPT ![r] = "done"]

SaveCache(r) ==
    /\ pc[r] = "save_cache"
    /\ CacheSaved(r, saved(cache_set(World, NoFault, 1, sid(session[r]),
                                     session[r].data),
                           session[r]))
    /\ UNCHANGED <<config, hist, uuids, persisted>>

(* remove_stored_session, line 53, called by destroy or by regenerate. *)
RemoveStore(r) ==
    /\ pc[r] = "open"
    /\ uuids - X < MaxSid
    /\ \E op \in {"destroy", "regenerate"} :
         /\ Commit(collection_remove(collection(World, NoFault), NoFault,
                                     session[r].data["_id"]),
                   "remove_store", r, EmptyStr)
         /\ pc' = [pc EXCEPT ![r] = IF op = "destroy" THEN "destroy_cache"
                                    ELSE "regenerate_cache"]
    /\ persisted' = delitem(persisted, sid(session[r]))
    /\ UNCHANGED <<config, session, hist, uuids>>

(* remove_stored_session, line 54, then destroy, lines 65-67, or           *)
(* regenerate, lines 79-80.                                                *)
RemoveCache(r) ==
    /\ pc[r] \in {"destroy_cache", "regenerate_cache"}
    /\ Commit(cache_remove(World, NoFault, 1, sid(session[r])),
              "remove_cache", r, EmptyStr)
    /\ session' = [session EXCEPT ![r] =
                     generate_sid([(IF pc[r] = "destroy_cache"
                                    THEN session_clear(@) ELSE @)
                                      EXCEPT !.new = TRUE],
                                  uuids + 1)]
    /\ uuids' = uuids + 1
    /\ pc' = [pc EXCEPT ![r] = "open"]
    /\ UNCHANGED <<config, hist, persisted>>

NextConcurrent ==
    \/ \E r \in Concurrent : LoadCache(r)
    \/ \E r \in Concurrent : LoadStore(r)
    \/ \E r \in Concurrent : LoadCacheSet(r)
    \/ \E r \in Concurrent : ConcurrentSetItem(r)
    \/ \E r \in Concurrent : SaveStore(r)
    \/ \E r \in Concurrent : SaveCache(r)
    \/ \E r \in Concurrent : RemoveStore(r)
    \/ \E r \in Concurrent : RemoveCache(r)

SpecConcurrent == InitConcurrent /\ [][NextConcurrent]_vars

(* Every request has finished. *)
Quiescent == \A r \in Concurrent : pc[r] = "done"

(* C19: once a destroy or a regenerate has removed X and every request has *)
(* finished, neither the store nor the cache holds a record for X.         *)
C19_RemovedStaysDead ==
    (Quiescent /\ X \notin DOMAIN persisted)
    => /\ Binary(X) \notin DOMAIN store
       /\ X \notin DOMAIN cache

(* C20: once every request has finished, X not having been removed, the    *)
(* cache's record for X, if it holds one, is the store's record for X.     *)
C20_CoherentAtQuiescence ==
    (Quiescent /\ X \in DOMAIN persisted /\ X \in DOMAIN cache)
    => cache[X] = get(store, Binary(X), EmptyDict)

-----------------------------------------------------------------------------
-----------------------------------------------------------------------------
(* C22: a session that is new is modified, in every state that             *)
(* construction, load, key writes, save_session, destroy and regenerate    *)
(* reach; and so the save of a new session never takes the no-op branch:   *)
(* it calls collection.save, or raises before it could (no connection).    *)
C22_NewImpliesModified ==
    /\ [](\A r \in Reqs : session[r].new => session[r].modified)
    /\ [][\A r \in Reqs :
            (lastOp'.op = "save" /\ lastOp'.req = r /\ session[r].new)
            => \/ lastOp'.io.saves = 1
               \/ lastOp'.exc # "" /\ lastOp'.io.attempts > 0]_vars

C22_Witness ==
    \E r \in Reqs :
        /\ lastOp.op = "regenerate" /\ lastOp.req = r /\ lastOp.exc = ""
        /\ hist[r].origin = "loaded"
        /\ "uid" \in DOMAIN session[r].data
        /\ session[r].new /\ session[r].modified

=============================================================================
